---- MODULE Spec2Model ----
(***************************************************************************)
(* Narrate (app.py): a FastAPI gateway that turns text into speech through *)
(* four providers and keeps a file-backed registry of uploaded reference   *)
(* voices.                                                                 *)
(*                                                                         *)
(* The server is one asyncio event loop (uvicorn.run(app, ...)): a handler *)
(* runs without interruption from one `await` to the next.  Every action   *)
(* below is one such uninterrupted stretch of one handler.                 *)
(*                                                                         *)
(* Representation of Python values:                                        *)
(*   - a str that the code trims or splits is a tuple of characters or     *)
(*     tokens (<<" ", "a">>); an absent or empty one is <<>>;              *)
(*   - an opaque str (api key, voice id) is a TLA+ string, None is None;   *)
(*   - an error detail is the tuple of the pieces of its (f-)string.       *)
(***************************************************************************)
EXTENDS Integers, Sequences, FiniteSets, TLC

\* ------------------------------------------------------------------------
\* Bounds of the model
\* ------------------------------------------------------------------------

\* number of voice ids uuid4 can hand out in one run
MaxVoices == 2

\* number of text_to_speech and health_check handlers that may be suspended
\* at an await at the same time (uploads in flight are limited by MaxVoices)
MaxInFlight == 1

\* ------------------------------------------------------------------------
\* Values
\* ------------------------------------------------------------------------

None == "None"

SP == " "

VoiceIds == {"v" \o ToString(i) : i \in 1..MaxVoices}

\* api keys a request can carry
RequestKeys == {None, "", "RK"}

\* provider ids a request can carry
RequestProviders ==
  {"mlx-audio", "elevenlabs", "openai", "mlx-voice-clone", "bogus"}

\* voice / voice_id fields a request can carry
Selectors == {None} \cup VoiceIds

Models == {"m1"}

\* bodies a downstream service can answer with
AudioBytes == {"audio1", "audio2"}

ErrorTexts == {"boom"}

\* HTTP statuses a downstream service can answer with
DownstreamStatuses == {200, 204, 500}

\* src/app.py:32
MAX_UPLOAD_SIZE == 25 * 1024 * 1024

\* payload sizes an upload can have
Sizes == {104, MAX_UPLOAD_SIZE, MAX_UPLOAD_SIZE + 1}

\* ------------------------------------------------------------------------
\* Pure helpers
\* ------------------------------------------------------------------------

IsSpace(ch) == ch = SP

RECURSIVE LStrip(_)
LStrip(s) ==
  IF s # <<>> /\ IsSpace(Head(s)) THEN LStrip(Tail(s)) ELSE s

RECURSIVE RStrip(_)
RStrip(s) ==
  IF s # <<>> /\ IsSpace(s[Len(s)])
  THEN RStrip(SubSeq(s, 1, Len(s) - 1))
  ELSE s

\* str.strip()
Strip(s) == RStrip(LStrip(s))

\* Python truthiness of an optional opaque string
Truthy(x) == x \notin {None, ""}

\* an `or` that prefers its second operand
Or_SecondFirst(a, b) == IF Truthy(b) THEN b ELSE a

\* Python `a or b`
Or(a, b) == IF Truthy(a) THEN a ELSE b

\* str.lower() on the tokens that occur
Lower(tok) ==
  CASE tok = "OGG" -> "ogg"
    [] OTHER -> tok

\* the literal the module assigns to PROVIDERS at import time
ProviderTable ==
  [p \in {"mlx-audio", "elevenlabs", "openai", "mlx-voice-clone"} |->
     CASE p = "mlx-audio" ->
            [requires_api_key |-> FALSE, requires_voice_upload |-> FALSE,
             voices |-> <<>>]
       [] p = "elevenlabs" ->
            [requires_api_key |-> TRUE, requires_voice_upload |-> FALSE,
             voices |-> [v \in {"21m00Tcm4TlvDq8ikWAM"} |-> "Rachel"]]
       [] p = "openai" ->
            [requires_api_key |-> TRUE, requires_voice_upload |-> FALSE,
             voices |-> [v \in {"alloy"} |-> "Alloy"]]
       [] p = "mlx-voice-clone" ->
            [requires_api_key |-> FALSE, requires_voice_upload |-> TRUE,
             voices |-> <<>>]]

\* ------------------------------------------------------------------------
\* State
\* ------------------------------------------------------------------------

VARIABLES
  PROVIDERS,           \* the process-wide provider dict
  HAS_WHISPER,         \* whether mlx_whisper could be imported
  ELEVENLABS_API_KEY,  \* os.getenv("ELEVENLABS_API_KEY", "")
  OPENAI_API_KEY,      \* os.getenv("OPENAI_API_KEY", "")
  meta,                \* contents of uploads/voices.json: voice_id -> entry
  files,               \* audio files in uploads/, as <<voice_id, ext>>
  issued,              \* voice ids uuid4 has produced so far
  acked,               \* voice ids whose upload has been answered 200
  deleted,             \* voice ids whose delete has been answered 200
  uploads,             \* upload_voice handlers suspended at `await file.read()`
  synth,               \* text_to_speech handlers suspended at `await client.post`
  probes,              \* number of health_check handlers suspended at `await client.get`
  last                 \* what the most recent handler step produced

config == <<PROVIDERS, HAS_WHISPER, ELEVENLABS_API_KEY, OPENAI_API_KEY>>

registry == <<meta, files, issued, acked, deleted>>

vars == <<PROVIDERS, HAS_WHISPER, ELEVENLABS_API_KEY, OPENAI_API_KEY,
          meta, files, issued, acked, deleted, uploads, synth, probes, last>>

InFlight == Cardinality(uploads) + Cardinality(synth) + probes

\* a handler step that ended in a response
Response(op, req, status, detail, body, trace) ==
  [op |-> op, req |-> req, status |-> status, detail |-> detail,
   body |-> body, trace |-> trace]

\* a handler step that ended at an await
Suspended(op, req) ==
  [op |-> op, req |-> req, status |-> 0, detail |-> <<>>, body |-> "",
   trace |-> ""]

\* raise HTTPException(status_code, detail), as FastAPI renders it
HTTPException(op, req, status, detail, trace) ==
  Response(op, req, status, detail, "", trace)

\* the environments the process is started in: whether mlx_whisper is
\* installed and the two keys of the environment ("" when unset)
Deployments ==
  {[whisper |-> FALSE, elevenlabs |-> "",   openai |-> ""],
   [whisper |-> TRUE,  elevenlabs |-> "EK", openai |-> ""],
   [whisper |-> TRUE,  elevenlabs |-> "",   openai |-> "OK"]}

Init ==
  /\ PROVIDERS = ProviderTable
  /\ \E d \in Deployments :
       /\ HAS_WHISPER = d.whisper
       /\ ELEVENLABS_API_KEY = d.elevenlabs
       /\ OPENAI_API_KEY = d.openai
  /\ meta = <<>>
  /\ files = {}
  /\ issued = {}
  /\ acked = {}
  /\ deleted = {}
  /\ uploads = {}
  /\ synth = {}
  /\ probes = 0
  /\ last = Suspended("start", "")

\* ------------------------------------------------------------------------
\* Voice registry
\* ------------------------------------------------------------------------

\* a load that takes the file to be absent
load_voices_metadata_Empty(m) == <<>>

\* load_voices_metadata(): the stored dict, {} when the file is absent
load_voices_metadata(m) == m

\* save_voices_metadata(metadata): the file holds exactly `metadata`
save_voices_metadata(m) == m

\* f"{voice_id}.{ext}"
AudioName(voice_id, ext) == <<voice_id, ext>>

\* body of GET /api/voices
ListVoicesBody(m) ==
  {[id |-> vid, name |-> m[vid].name, transcript |-> m[vid].transcript,
    filename |-> m[vid].filename] : vid \in DOMAIN m}

\* GET /api/voices
list_voices ==
  /\ last' = Response("list", "", 200, <<>>,
                      ListVoicesBody(load_voices_metadata(meta)), "")
  /\ UNCHANGED <<config, registry, uploads, synth, probes>>

\* a listing that returns the static table as it is
ProvidersEffect_Static(table, m) == [table |-> table, body |-> table]

\* a listing built on the dicts of the table themselves (no config.copy()):
\* the assignment of "voices" lands in the table too
ProvidersEffect_NoCopy(table, m) ==
  [table |-> [table EXCEPT !["mlx-voice-clone"].voices =
                [vid \in DOMAIN m |-> m[vid].name]],
   body  |-> [table EXCEPT !["mlx-voice-clone"].voices =
                [vid \in DOMAIN m |-> m[vid].name]]]

\* what get_providers does to the provider dict and what it returns: each
\* provider's dict is copied (config.copy()) before "voices" is assigned in
\* the copy of mlx-voice-clone
ProvidersEffect(table, m) ==
  [table |-> table,
   body  |-> [table EXCEPT !["mlx-voice-clone"].voices =
                [vid \in DOMAIN m |-> m[vid].name]]]

\* GET /api/providers
get_providers ==
  LET eff == ProvidersEffect(PROVIDERS, load_voices_metadata(meta)) IN
  /\ PROVIDERS' = eff.table
  /\ last' = Response("providers", "", 200, <<>>, eff.body, "")
  /\ UNCHANGED <<HAS_WHISPER, ELEVENLABS_API_KEY, OPENAI_API_KEY,
                 registry, uploads, synth, probes>>

\* a `del` that acts on a copy: the dict that is saved still has the key
Without_KeepAll(m, vid) == m

\* dict without one key
Without(m, vid) == [k \in DOMAIN m \ {vid} |-> m[k]]

\* a delete that forgets to unlink the audio file
DeleteEffect_KeepFile(m, fs, voice_id) ==
  IF voice_id \notin DOMAIN m
  THEN [meta |-> m, files |-> fs,
        resp |-> HTTPException("delete", voice_id, 404, <<"Voice not found">>, "")]
  ELSE [meta  |-> save_voices_metadata(Without(m, voice_id)),
        files |-> fs,
        resp  |-> Response("delete", voice_id, 200, <<>>,
                           [status |-> "deleted", voice_id |-> voice_id],
                           [unlinked |-> FALSE])]

\* a delete that gives up when the audio file is not there
DeleteEffect_FileRequired(m, fs, voice_id) ==
  IF voice_id \notin DOMAIN m
  THEN [meta |-> m, files |-> fs,
        resp |-> HTTPException("delete", voice_id, 404, <<"Voice not found">>, "")]
  ELSE IF m[voice_id].filename \notin fs
  THEN [meta |-> m, files |-> fs,
        resp |-> HTTPException("delete", voice_id, 404,
                               <<"Voice audio file not found">>, "")]
  ELSE [meta  |-> save_voices_metadata(Without(m, voice_id)),
        files |-> fs \ {m[voice_id].filename},
        resp  |-> Response("delete", voice_id, 200, <<>>,
                           [status |-> "deleted", voice_id |-> voice_id],
                           [unlinked |-> TRUE])]

\* what delete_voice leaves on disk and what it answers
DeleteEffect(m, fs, voice_id) ==
  IF voice_id \notin DOMAIN m
  THEN [meta |-> m, files |-> fs,
        resp |-> HTTPException("delete", voice_id, 404, <<"Voice not found">>, "")]
  ELSE [meta  |-> save_voices_metadata(Without(m, voice_id)),
        files |-> fs \ {m[voice_id].filename},
        resp  |-> Response("delete", voice_id, 200, <<>>,
                           [status |-> "deleted", voice_id |-> voice_id],
                           [unlinked |-> m[voice_id].filename \in fs])]

\* DELETE /api/voices/{voice_id}
delete_voice(voice_id) ==
  LET eff == DeleteEffect(load_voices_metadata(meta), files, voice_id) IN
  /\ meta' = eff.meta
  /\ files' = eff.files
  /\ last' = eff.resp
  /\ deleted' = IF eff.resp.status = 200 THEN deleted \cup {voice_id}
                ELSE deleted
  /\ UNCHANGED <<config, issued, acked, uploads, synth, probes>>

\* a multipart upload: the declared content type and filename of the file
\* (<<>> for an absent one), the name and the transcript form fields
Upload(content_type, filename, name, transcript) ==
  [file |-> [content_type |-> content_type, filename |-> filename],
   name |-> name, transcript |-> transcript]

\* the uploads clients send
UploadRequests ==
  {Upload(<<"audio", "/", "mpeg">>, <<"clip", ".", "OGG">>, "Ann", <<"a">>),
   Upload(<<"audio", "/", "wav">>,  <<>>,                   "Bob", <<SP, "a">>),
   Upload(<<"audio", "/", "wav">>,  <<"clip", ".", "OGG">>, "Ann", <<>>),
   Upload(<<"audio", "/", "mpeg">>, <<>>,                   "Bob", <<SP>>),
   Upload(<<"text", "/", "plain">>, <<"clip", ".", "OGG">>, "Ann", <<"a">>),
   Upload(<<>>,                     <<>>,                   "Bob", <<"a">>)}

\* texts mlx_whisper.transcribe can return
WhisperTexts == {<<>>, <<"a", SP>>}

\* file.content_type and file.content_type.startswith("audio/")
IsAudio(content_type) ==
  /\ content_type # <<>>
  /\ Len(content_type) >= 2
  /\ content_type[1] = "audio"
  /\ content_type[2] = "/"

\* the size test with >= for >
TooLarge_Inclusive(size) == size >= MAX_UPLOAD_SIZE

\* len(content) > MAX_UPLOAD_SIZE
TooLarge(size) == size > MAX_UPLOAD_SIZE

\* the extension upload_voice picks for the stored file
ExtOf(file) ==
  IF file.content_type = <<"audio", "/", "mpeg">> THEN "mp3"
  ELSE IF file.content_type = <<"audio", "/", "mp4">> THEN "m4a"
  ELSE IF file.filename # <<>>
          /\ \E i \in 1..Len(file.filename) : file.filename[i] = "."
       THEN Lower(file.filename[Len(file.filename)])
  ELSE "wav"

\* transcribe_audio(audio_path): an error without mlx_whisper, else the
\* trimmed text of what mlx_whisper heard
transcribe_audio(has_whisper, heard) ==
  IF ~has_whisper
  THEN [ok |-> FALSE, status |-> 400,
        detail |-> <<"Transcript required. Install mlx-whisper for auto-transcription: uv pip install mlx-whisper">>]
  ELSE [ok |-> TRUE, text |-> Strip(heard)]

\* an entry that keeps the transcript form field as it was sent
NewEntry_RawTranscript(req, voice_id, ext, transcript) ==
  [name |-> req.name, transcript |-> req.transcript,
   filename |-> AudioName(voice_id, ext),
   original_filename |-> req.file.filename]

\* the metadata entry upload_voice stores
NewEntry(req, voice_id, ext, transcript) ==
  [name |-> req.name, transcript |-> transcript,
   filename |-> AudioName(voice_id, ext),
   original_filename |-> req.file.filename]

\* a body that echoes the transcript form field
UploadBody_SuppliedTranscript(req, voice_id, ext, transcript) ==
  [voice_id |-> voice_id, name |-> req.name,
   filename |-> AudioName(voice_id, ext), transcript |-> Strip(req.transcript)]

\* the JSON upload_voice returns
UploadBody(req, voice_id, ext, transcript) ==
  [voice_id |-> voice_id, name |-> req.name,
   filename |-> AudioName(voice_id, ext), transcript |-> transcript]

\* an id generator that can repeat an id
Uuid4_Reused(ids) == VoiceIds

\* uuid.uuid4().hex[:12]: an id no earlier call produced
Uuid4(ids) == VoiceIds \ ids

\* POST /api/upload-voice, up to `await file.read()`
upload_voice(req) ==
  /\ IF ~IsAudio(req.file.content_type)
     THEN /\ last' = HTTPException("upload", req, 400,
                                   <<"File must be an audio file">>, "")
          /\ UNCHANGED uploads
     ELSE /\ Cardinality(synth) + probes < MaxInFlight
          /\ Cardinality(issued) + Cardinality(uploads) < MaxVoices
          /\ req \notin uploads
          /\ uploads' = uploads \cup {req}
          /\ last' = Suspended("upload", req)
  /\ UNCHANGED <<config, registry, synth, probes>>

\* an upload that writes the payload to uploads/ before it tests its size
StoreEffect_WriteFirst(req, size, voice_id, heard, has_whisper, m, fs) ==
  LET ext      == ExtOf(req.file)
      written  == fs \cup {AudioName(voice_id, ext)}
      supplied == Strip(req.transcript)
      heardTxt == transcribe_audio(has_whisper, heard)
  IN
  IF TooLarge(size)
  THEN [meta |-> m, files |-> written, issued |-> {voice_id},
        resp |-> HTTPException("upload", req, 400,
                               <<"File too large (max 25 MB)">>, "")]
  ELSE IF supplied = <<>> /\ ~heardTxt.ok
  THEN [meta |-> m, files |-> written, issued |-> {voice_id},
        resp |-> HTTPException("upload", req, heardTxt.status,
                               heardTxt.detail, "")]
  ELSE
    LET transcript == IF supplied = <<>> THEN heardTxt.text ELSE supplied
        loaded     == load_voices_metadata(m)
        updated    == [k \in DOMAIN loaded \cup {voice_id} |->
                         IF k = voice_id
                         THEN NewEntry(req, voice_id, ext, transcript)
                         ELSE loaded[k]]
    IN [meta |-> save_voices_metadata(updated), files |-> written,
        issued |-> {voice_id},
        resp |-> Response("upload", req, 200, <<>>,
                          UploadBody(req, voice_id, ext, transcript), "")]

\* what upload_voice does once the payload has been read: the size check,
\* the file write, the transcript and the metadata update
StoreEffect(req, size, voice_id, heard, has_whisper, m, fs) ==
  IF TooLarge(size)
  THEN [meta |-> m, files |-> fs, issued |-> {},
        resp |-> HTTPException("upload", req, 400,
                               <<"File too large (max 25 MB)">>, "")]
  ELSE
    LET ext      == ExtOf(req.file)
        written  == fs \cup {AudioName(voice_id, ext)}
        supplied == Strip(req.transcript)
        heardTxt == transcribe_audio(has_whisper, heard)
    IN
    IF supplied = <<>> /\ ~heardTxt.ok
    THEN [meta |-> m, files |-> written, issued |-> {voice_id},
          resp |-> HTTPException("upload", req, heardTxt.status,
                                 heardTxt.detail, "")]
    ELSE
      LET transcript == IF supplied = <<>> THEN heardTxt.text ELSE supplied
          loaded     == load_voices_metadata(m)
          updated    == [k \in DOMAIN loaded \cup {voice_id} |->
                           IF k = voice_id
                           THEN NewEntry(req, voice_id, ext, transcript)
                           ELSE loaded[k]]
      IN [meta |-> save_voices_metadata(updated), files |-> written,
          issued |-> {voice_id},
          resp |-> Response("upload", req, 200, <<>>,
                            UploadBody(req, voice_id, ext, transcript), "")]

\* POST /api/upload-voice, from the return of `await file.read()` to the end
upload_voice_read(req, size, voice_id, heard) ==
  /\ req \in uploads
  /\ voice_id \in Uuid4(issued)
  /\ LET eff == StoreEffect(req, size, voice_id, heard, HAS_WHISPER,
                            meta, files) IN
     /\ meta' = eff.meta
     /\ files' = eff.files
     /\ issued' = issued \cup eff.issued
     /\ acked' = IF eff.resp.status = 200 THEN acked \cup {voice_id}
                 ELSE acked
     /\ last' = eff.resp
  /\ uploads' = uploads \ {req}
  /\ UNCHANGED <<config, deleted, synth, probes>>

\* ------------------------------------------------------------------------
\* Provider dispatch
\* ------------------------------------------------------------------------

TtsTexts == {<<>>, <<SP>>, <<"a">>}

\* TTSRequest bodies; api_key and the voice fields vary where a branch reads
\* them and keep their default (None) elsewhere
TtsRequests ==
  {r \in [text : TtsTexts, provider : RequestProviders, model : Models,
          voice : {None, "v1"}, api_key : RequestKeys, voice_id : Selectors] :
     /\ r.provider \notin {"elevenlabs", "openai"} => r.api_key = None
     /\ r.provider # "mlx-voice-clone" => r.voice_id = None /\ r.voice = None}

MLX_AUDIO_URL == <<"http://127.0.0.1:8000">>

\* an outgoing POST
Post(url, key, model, input, voice, ref_audio, ref_text) ==
  [url |-> url, key |-> key, model |-> model, input |-> input,
   voice |-> voice, ref_audio |-> ref_audio, ref_text |-> ref_text]

\* the outcome of the part of a generate_* function before its POST
Raise(status, detail, loads) ==
  [kind |-> "raise", status |-> status, detail |-> detail, loads |-> loads]

Call(sent, prefix, loads) ==
  [kind |-> "call", sent |-> sent, prefix |-> prefix, loads |-> loads]

\* generate_mlx_audio, up to the POST
generate_mlx_audio(text, model, voice) ==
  Call(Post(MLX_AUDIO_URL \o <<"/v1/audio/speech">>, None, model, text,
            Or(voice, "af_heart"), <<>>, <<>>),
       "MLX-Audio error: ", 0)

\* generate_elevenlabs without its `if not api_key` guard
generate_elevenlabs_NoKeyCheck(text, model, voice, api_key) ==
  Call(Post(<<"https://api.elevenlabs.io/v1/text-to-speech/",
              Or(voice, "21m00Tcm4TlvDq8ikWAM")>>,
            api_key, model, text, None, <<>>, <<>>),
       "ElevenLabs error: ", 0)

\* generate_elevenlabs, up to the POST
generate_elevenlabs(text, model, voice, api_key) ==
  IF ~Truthy(api_key)
  THEN Raise(400, <<"ElevenLabs API key required">>, 0)
  ELSE Call(Post(<<"https://api.elevenlabs.io/v1/text-to-speech/",
                   Or(voice, "21m00Tcm4TlvDq8ikWAM")>>,
                 api_key, model, text, None, <<>>, <<>>),
            "ElevenLabs error: ", 0)

\* generate_openai, up to the POST
generate_openai(text, model, voice, api_key) ==
  IF ~Truthy(api_key)
  THEN Raise(400, <<"OpenAI API key required">>, 0)
  ELSE Call(Post(<<"https://api.openai.com/v1/audio/speech">>,
                 api_key, model, text, Or(voice, "alloy"), <<>>, <<>>),
            "OpenAI error: ", 0)

\* generate_mlx_voice_clone without its `if not ref_text` guard
generate_mlx_voice_clone_NoTranscriptCheck(text, model, voice_id, m, fs) ==
  IF ~Truthy(voice_id)
  THEN Raise(400, <<"Voice ID required for voice cloning">>, 0)
  ELSE IF voice_id \notin DOMAIN load_voices_metadata(m)
  THEN Raise(404, <<"Voice not found">>, 1)
  ELSE IF m[voice_id].filename \notin fs
  THEN Raise(404, <<"Voice audio file not found">>, 1)
  ELSE Call(Post(MLX_AUDIO_URL \o <<"/v1/audio/speech">>, None, model, text,
                 None, m[voice_id].filename, m[voice_id].transcript),
            "MLX-Audio voice clone error: ", 1)

\* generate_mlx_voice_clone, up to the POST
generate_mlx_voice_clone(text, model, voice_id, m, fs) ==
  IF ~Truthy(voice_id)
  THEN Raise(400, <<"Voice ID required for voice cloning">>, 0)
  ELSE IF voice_id \notin DOMAIN load_voices_metadata(m)
  THEN Raise(404, <<"Voice not found">>, 1)
  ELSE IF m[voice_id].filename \notin fs
  THEN Raise(404, <<"Voice audio file not found">>, 1)
  ELSE IF m[voice_id].transcript = <<>>
  THEN Raise(400, <<"Voice transcript is required for cloning">>, 1)
  ELSE Call(Post(MLX_AUDIO_URL \o <<"/v1/audio/speech">>, None, model, text,
                 None, m[voice_id].filename, m[voice_id].transcript),
            "MLX-Audio voice clone error: ", 1)

\* the emptiness test without the strip()
TextIsEmpty_NoStrip(text) == text = <<>>

\* not request.text.strip()
TextIsEmpty(text) == Strip(text) = <<>>

\* the catalog test left out
UnknownProvider_Skipped(provider, table) == FALSE

\* request.provider not in PROVIDERS
UnknownProvider(provider, table) == provider \notin DOMAIN table

\* every branch labelled as MP3
MediaOf_AllMpeg(provider) == [media_type |-> "audio/mpeg", ext |-> "mp3"]

\* media type and file extension text_to_speech attaches to each branch
MediaOf(provider) ==
  CASE provider = "mlx-audio"       -> [media_type |-> "audio/mpeg", ext |-> "mp3"]
    [] provider = "elevenlabs"      -> [media_type |-> "audio/mpeg", ext |-> "mp3"]
    [] provider = "openai"          -> [media_type |-> "audio/wav",  ext |-> "wav"]
    [] provider = "mlx-voice-clone" -> [media_type |-> "audio/mpeg", ext |-> "mp3"]

\* text_to_speech with the catalog test moved before the text test
Dispatch_ProviderFirst(r, table, elevenKey, openaiKey, m, fs) ==
  IF UnknownProvider(r.provider, table)
  THEN [branch |-> "none",
        out |-> Raise(400, <<"Unknown provider: ", r.provider>>, 0)]
  ELSE IF TextIsEmpty(r.text)
  THEN [branch |-> "none", out |-> Raise(400, <<"Text cannot be empty">>, 0)]
  ELSE IF r.provider = "mlx-audio"
  THEN [branch |-> "mlx-audio",
        out |-> generate_mlx_audio(r.text, r.model, r.voice)]
  ELSE IF r.provider = "elevenlabs"
  THEN [branch |-> "elevenlabs",
        out |-> generate_elevenlabs(r.text, r.model, r.voice,
                                    Or(r.api_key, elevenKey))]
  ELSE IF r.provider = "openai"
  THEN [branch |-> "openai",
        out |-> generate_openai(r.text, r.model, r.voice,
                                Or(r.api_key, openaiKey))]
  ELSE [branch |-> "mlx-voice-clone",
        out |-> generate_mlx_voice_clone(r.text, r.model,
                                         Or(r.voice_id, r.voice), m, fs)]

\* text_to_speech from its first line to the first await (or to the raise
\* that ends it): which branch ran and what came of it
Dispatch(r, table, elevenKey, openaiKey, m, fs) ==
  IF TextIsEmpty(r.text)
  THEN [branch |-> "none", out |-> Raise(400, <<"Text cannot be empty">>, 0)]
  ELSE IF UnknownProvider(r.provider, table)
  THEN [branch |-> "none",
        out |-> Raise(400, <<"Unknown provider: ", r.provider>>, 0)]
  ELSE IF r.provider = "mlx-audio"
  THEN [branch |-> "mlx-audio",
        out |-> generate_mlx_audio(r.text, r.model, r.voice)]
  ELSE IF r.provider = "elevenlabs"
  THEN [branch |-> "elevenlabs",
        out |-> generate_elevenlabs(r.text, r.model, r.voice,
                                    Or(r.api_key, elevenKey))]
  ELSE IF r.provider = "openai"
  THEN [branch |-> "openai",
        out |-> generate_openai(r.text, r.model, r.voice,
                                Or(r.api_key, openaiKey))]
  ELSE IF r.provider = "mlx-voice-clone"
  THEN [branch |-> "mlx-voice-clone",
        out |-> generate_mlx_voice_clone(r.text, r.model,
                                         Or(r.voice_id, r.voice), m, fs)]
  ELSE [branch |-> "none",
        out |-> Raise(400, <<"Unsupported provider: ", r.provider>>, 0)]

\* what is known of a request's handling: the generate_* function entered,
\* the registry reads and the downstream calls made
Trace(branch, loads, calls) ==
  [branch |-> branch, loads |-> loads, calls |-> calls]

\* POST /api/tts, up to `await client.post(...)`
text_to_speech(r) ==
  LET d == Dispatch(r, PROVIDERS, ELEVENLABS_API_KEY, OPENAI_API_KEY,
                    meta, files) IN
  /\ IF d.out.kind = "raise"
     THEN /\ last' = HTTPException("tts", r.provider, d.out.status, d.out.detail,
                                   Trace(d.branch, d.out.loads, 0))
          /\ UNCHANGED synth
     ELSE LET task == [provider |-> r.provider, sent |-> d.out.sent,
                       prefix |-> d.out.prefix, loads |-> d.out.loads] IN
          /\ InFlight < MaxInFlight
          /\ task \notin synth
          /\ synth' = synth \cup {task}
          /\ last' = Suspended("tts", "")
  /\ UNCHANGED <<config, registry, uploads, probes>>

\* what `await client.post(...)` can come back with
DownstreamOutcomes ==
  {[kind |-> "response", status |-> 200, content |-> b] : b \in AudioBytes}
  \cup {[kind |-> "response", status |-> st, content |-> e] :
          st \in DownstreamStatuses \ {200}, e \in ErrorTexts}
  \cup {[kind |-> k, status |-> 0, content |-> "slow"] :
          k \in {"TimeoutException"}}
  \cup {[kind |-> k, status |-> 0, content |-> "refused"] :
          k \in {"ConnectError"}}
  \cup {[kind |-> k, status |-> 0, content |-> "broken"] :
          k \in {"Exception"}}

\* the except chain without `except HTTPException: raise`: the errors the
\* generate_* functions raise fall to `except Exception`
Complete_HttpErrorsWrapped(task, o) ==
  LET tr == Trace(task.provider, task.loads, 1) IN
  IF o.kind = "TimeoutException"
  THEN HTTPException("tts", task.provider, 504, <<"TTS generation timed out">>, tr)
  ELSE IF o.kind = "ConnectError"
  THEN HTTPException("tts", task.provider, 503,
         <<"Cannot connect to ", task.provider,
           ". Check your connection or API settings.">>, tr)
  ELSE IF o.kind = "Exception"
  THEN HTTPException("tts", task.provider, 500, <<o.content>>, tr)
  ELSE IF o.status # 200
  THEN HTTPException("tts", task.provider, 500, <<task.prefix, o.content>>,
                     tr)
  ELSE Response("tts", task.provider, 200, <<>>,
                [content |-> o.content,
                 media_type |-> MediaOf(task.provider).media_type,
                 disposition |-> <<"attachment; filename=narrate_", "hex8",
                                   ".", MediaOf(task.provider).ext>>],
                tr)

\* the rest of generate_* and of text_to_speech once the POST has returned
\* or raised
Complete(task, o) ==
  LET r  == [provider |-> task.provider]
      tr == Trace(task.provider, task.loads, 1) IN
  IF o.kind = "TimeoutException"
  THEN HTTPException("tts", task.provider, 504, <<"TTS generation timed out">>, tr)
  ELSE IF o.kind = "ConnectError"
  THEN HTTPException("tts", task.provider, 503,
         <<"Cannot connect to ", r.provider,
           ". Check your connection or API settings.">>, tr)
  ELSE IF o.kind = "Exception"
  THEN HTTPException("tts", task.provider, 500, <<o.content>>, tr)
  ELSE IF o.status # 200
  THEN HTTPException("tts", task.provider, o.status,
                     <<task.prefix, o.content>>, tr)
  ELSE Response("tts", task.provider, 200, <<>>,
                [content |-> o.content,
                 media_type |-> MediaOf(r.provider).media_type,
                 disposition |-> <<"attachment; filename=narrate_", "hex8",
                                   ".", MediaOf(r.provider).ext>>],
                tr)

\* POST /api/tts, from the return of `await client.post(...)` to the end
text_to_speech_done(task, o) ==
  /\ task \in synth
  /\ synth' = synth \ {task}
  /\ last' = Complete(task, o)
  /\ UNCHANGED <<config, registry, uploads, probes>>

\* ------------------------------------------------------------------------
\* Health
\* ------------------------------------------------------------------------

\* GET /api/health, up to `await client.get(...)`
health_check ==
  /\ InFlight < MaxInFlight
  /\ probes' = probes + 1
  /\ last' = Suspended("health", "")
  /\ UNCHANGED <<config, registry, uploads, synth>>

\* what `await client.get(...)` can come back with
ProbeOutcomes ==
  {[kind |-> "response", status |-> st] : st \in DownstreamStatuses}
  \cup {[kind |-> k, status |-> 0] :
          k \in {"TimeoutException", "ConnectError", "Exception"}}

\* a probe that takes any answer for a working server
HealthBody_AnyAnswerConnected(o, elevenKey, openaiKey) ==
  [status |-> "ok",
   providers |->
     [mlx_audio  |-> IF o.kind # "response" THEN "disconnected"
                     ELSE "connected",
      elevenlabs |-> IF elevenKey # "" THEN "configured" ELSE "no_api_key",
      openai     |-> IF openaiKey # "" THEN "configured" ELSE "no_api_key"]]

\* the status dict health_check returns
HealthBody(o, elevenKey, openaiKey) ==
  [status |-> "ok",
   providers |->
     [mlx_audio  |-> IF o.kind # "response" THEN "disconnected"
                     ELSE IF o.status = 200 THEN "connected" ELSE "error",
      elevenlabs |-> IF elevenKey # "" THEN "configured" ELSE "no_api_key",
      openai     |-> IF openaiKey # "" THEN "configured" ELSE "no_api_key"]]

\* GET /api/health, from the return of `await client.get(...)` to the end
health_check_done(o) ==
  /\ probes > 0
  /\ probes' = probes - 1
  /\ last' = Response("health", "", 200, <<>>,
                      HealthBody(o, ELEVENLABS_API_KEY, OPENAI_API_KEY), "")
  /\ UNCHANGED <<config, registry, uploads, synth>>

\* ------------------------------------------------------------------------
\* Specification
\* ------------------------------------------------------------------------

Next ==
  \/ list_voices
  \/ get_providers
  \/ \E voice_id \in VoiceIds : delete_voice(voice_id)
  \/ \E req \in UploadRequests : upload_voice(req)
  \/ \E req \in uploads, size \in Sizes, voice_id \in VoiceIds,
        heard \in WhisperTexts :
       upload_voice_read(req, size, voice_id, heard)
  \/ \E r \in TtsRequests : text_to_speech(r)
  \/ \E task \in synth, o \in DownstreamOutcomes :
       text_to_speech_done(task, o)
  \/ health_check
  \/ \E o \in ProbeOutcomes : health_check_done(o)

Spec == Init /\ [][Next]_vars

\* entries uploads/voices.json can hold for a voice id when the process
\* starts
StoredEntries(voice_id) ==
  {[name |-> "Ann", transcript |-> t, filename |-> AudioName(voice_id, "wav"),
    original_filename |-> <<>>] : t \in {<<"a">>, <<>>}}

\* the process starts on an uploads/ directory an earlier run left behind:
\* any stored entries, and any audio files, because a run that stopped
\* between the unlink and the save of delete_voice, or a file removed by
\* hand, leaves an entry without its file
InitStored ==
  /\ PROVIDERS = ProviderTable
  /\ \E d \in Deployments :
       /\ HAS_WHISPER = d.whisper
       /\ ELEVENLABS_API_KEY = d.elevenlabs
       /\ OPENAI_API_KEY = d.openai
  /\ \E ids \in SUBSET VoiceIds :
       meta \in {m \in [ids -> UNION {StoredEntries(v) : v \in VoiceIds}] :
                   \A v \in ids : m[v] \in StoredEntries(v)}
  /\ files \in SUBSET {AudioName(v, "wav") : v \in VoiceIds}
  /\ issued = DOMAIN meta \cup {f[1] : f \in files}
  /\ acked = DOMAIN meta
  /\ deleted = {}
  /\ uploads = {}
  /\ synth = {}
  /\ probes = 0
  /\ last = Suspended("start", "")

\* deletes on such a directory
NextStored == \E voice_id \in VoiceIds : delete_voice(voice_id)

SpecStored == InitStored /\ [][NextStored]_vars

\* `await file.read()` returns
UploadReturns ==
  \E req \in uploads, size \in Sizes, voice_id \in VoiceIds,
     heard \in WhisperTexts :
    upload_voice_read(req, size, voice_id, heard)

\* `await client.post(...)` returns or raises, at the latest when the
\* client's timeout (120 s, 300 s for cloning) expires
PostReturns ==
  \E task \in synth, o \in DownstreamOutcomes : text_to_speech_done(task, o)

\* `await client.get(...)` returns or raises, at the latest after 5 s
ProbeReturns == \E o \in ProbeOutcomes : health_check_done(o)

\* the event loop resumes every handler whose await has returned; whether
\* requests arrive is up to the clients
FairSpec ==
  /\ Spec
  /\ WF_vars(UploadReturns)
  /\ WF_vars(PostReturns)
  /\ WF_vars(ProbeReturns)

\* deletes and synthesis requests on a directory an earlier run left behind
NextStoredCalls ==
  \/ NextStored
  \/ \E r \in TtsRequests : text_to_speech(r)
  \/ PostReturns

SpecStoredCalls == InitStored /\ [][NextStoredCalls]_vars

\* ------------------------------------------------------------------------
\* Properties
\* ------------------------------------------------------------------------

\* a text with nothing but whitespace in it
Blank(text) == \A i \in 1..Len(text) : text[i] = SP

\* what text_to_speech makes of request r in the current state
DispatchNow(r) ==
  Dispatch(r, PROVIDERS, ELEVENLABS_API_KEY, OPENAI_API_KEY, meta, files)

\* the key the process is configured with for a vendor
ConfiguredKey(provider) ==
  IF provider = "elevenlabs" THEN ELEVENLABS_API_KEY ELSE OPENAI_API_KEY

\* C1: whatever the provider id, a request whose text is empty or only
\* whitespace is answered 400 <<"Text cannot be empty">>; no generate_* function
\* runs, the registry is not read and no downstream call is made.
C1_EmptyTextRejected ==
  /\ \A r \in TtsRequests :
       Blank(r.text) =>
         /\ DispatchNow(r).branch = "none"
         /\ DispatchNow(r).out.kind = "raise"
         /\ DispatchNow(r).out.status = 400
         /\ DispatchNow(r).out.detail = <<"Text cannot be empty">>
         /\ DispatchNow(r).out.loads = 0
  /\ (last.op = "tts" /\ last.detail = <<"Text cannot be empty">>) =>
       /\ last.status = 400
       /\ last.trace = [branch |-> "none", loads |-> 0, calls |-> 0]

\* C1 witness: a blank text was just rejected although voices are registered
C1_Witness ==
  /\ last.op = "tts"
  /\ last.status = 400
  /\ last.detail = <<"Text cannot be empty">>
  /\ DOMAIN meta # {}

\* C2: a request with a non-blank text and a provider id outside the catalog
\* is answered 400 "Unknown provider"; no generate_* function runs, no
\* downstream call is made, and no suspended handler has such a provider.
C2_UnknownProviderRejected ==
  /\ \A r \in TtsRequests :
       (~Blank(r.text) /\ r.provider \notin DOMAIN PROVIDERS) =>
         /\ DispatchNow(r).branch = "none"
         /\ DispatchNow(r).out.kind = "raise"
         /\ DispatchNow(r).out.status = 400
         /\ DispatchNow(r).out.detail = <<"Unknown provider: ", r.provider>>
  /\ \A task \in synth : task.provider \in DOMAIN PROVIDERS
  /\ (last.op = "tts" /\ last.detail # <<>>
        /\ last.detail[1] = "Unknown provider: ") =>
       /\ last.status = 400
       /\ last.trace = [branch |-> "none", loads |-> 0, calls |-> 0]

\* C2 witness: an unknown provider id was just rejected
C2_Witness ==
  /\ last.op = "tts"
  /\ last.status = 400
  /\ last.detail = <<"Unknown provider: ", "bogus">>

\* C3: for a provider that requires an api key, a request with a non-blank
\* text, no key of its own and no configured key is answered 400 and makes
\* no downstream call.
C3_MissingCredentialRejected ==
  /\ \A r \in TtsRequests :
       (/\ ~Blank(r.text)
        /\ r.provider \in DOMAIN PROVIDERS
        /\ PROVIDERS[r.provider].requires_api_key
        /\ r.api_key \in {None, ""}
        /\ ConfiguredKey(r.provider) = "") =>
         /\ DispatchNow(r).out.kind = "raise"
         /\ DispatchNow(r).out.status = 400
         /\ DispatchNow(r).out.detail \in
              {<<"ElevenLabs API key required">>, <<"OpenAI API key required">>}
  /\ \A task \in synth :
       PROVIDERS[task.provider].requires_api_key =>
         task.sent.key \notin {None, ""}
  /\ (last.op = "tts" /\ last.detail \in
        {<<"ElevenLabs API key required">>, <<"OpenAI API key required">>}) =>
       /\ last.status = 400
       /\ last.trace.calls = 0

\* C3 witness: a keyless request to a cloud vendor was just rejected in a
\* deployment that has a key for the other vendor only
C3_Witness ==
  /\ last.op = "tts"
  /\ last.status = 400
  /\ last.detail = <<"OpenAI API key required">>
  /\ OPENAI_API_KEY = ""
  /\ ELEVENLABS_API_KEY # ""

\* the entries GET /api/voices would list now for one voice id
Listed(voice_id) == {e \in ListVoicesBody(meta) : e.id = voice_id}

\* C4 as stated: after a successful upload with name N and a non-empty
\* transcript T, the list has exactly one entry with the returned voice_id,
\* and its name is N and its transcript is T.
C4_AsStated ==
  (last.op = "upload" /\ last.status = 200 /\ last.req.transcript # <<>>) =>
    /\ Cardinality(Listed(last.body.voice_id)) = 1
    /\ \A e \in Listed(last.body.voice_id) :
         e.name = last.req.name /\ e.transcript = last.req.transcript
    /\ issued = {last.body.voice_id} => Cardinality(ListVoicesBody(meta)) = 1

\* C4 amended: after a successful upload with name N and a transcript T that
\* is not blank, the list has exactly one entry with the returned voice_id,
\* its name is N and its transcript is T without its leading and trailing
\* whitespace; if it was the first upload the list has exactly one entry.
C4_UploadListRoundTrip ==
  (last.op = "upload" /\ last.status = 200 /\ ~Blank(last.req.transcript)) =>
    /\ Cardinality(Listed(last.body.voice_id)) = 1
    /\ \A e \in Listed(last.body.voice_id) :
         e.name = last.req.name /\ e.transcript = Strip(last.req.transcript)
    /\ issued = {last.body.voice_id} => Cardinality(ListVoicesBody(meta)) = 1

\* C4 witness: a transcript sent with a leading space is listed without it
C4_Witness ==
  /\ last.op = "upload"
  /\ last.status = 200
  /\ last.req.transcript = <<SP, "a">>
  /\ \E e \in Listed(last.body.voice_id) :
       e.name = last.req.name /\ e.transcript = <<"a">>

\* the voices map GET /api/providers would return now for the clone provider
CloneVoices ==
  ProvidersEffect(PROVIDERS, meta).body["mlx-voice-clone"].voices

\* C5: after a successful delete the id is in neither the voice list nor the
\* clone provider's voices map and no audio file of that id is left; a delete
\* of an id that is not registered answers 404, so does a second delete.
C5_DeleteRemovesEverywhere ==
  /\ (last.op = "delete" /\ last.status = 200) =>
       /\ Listed(last.req) = {}
       /\ last.req \notin DOMAIN CloneVoices
       /\ \A f \in files : f[1] # last.req
       /\ DeleteEffect(meta, files, last.req).resp.status = 404
  /\ \A voice_id \in VoiceIds \cup {"nonexistent123"} :
       LET resp == DeleteEffect(meta, files, voice_id).resp IN
       IF voice_id \in DOMAIN meta
       THEN resp.status = 200
       ELSE resp.status = 404 /\ resp.detail = <<"Voice not found">>
  /\ (last.op = "delete" /\ last.status # 200) =>
       last.status = 404 /\ last.req \notin DOMAIN meta

\* C5 witness: a voice that had been uploaded was just deleted while another
\* one stays registered
C5_Witness ==
  /\ last.op = "delete"
  /\ last.status = 200
  /\ last.req \in issued
  /\ DOMAIN meta # {}

\* the voice selector text_to_speech passes to the cloning branch
SelectorOf(r) == IF r.voice_id \notin {None, ""} THEN r.voice_id ELSE r.voice

\* C6 as stated: a cloning request with a non-blank text is answered 400 without a
\* selector, 404 with a selector that is not registered, 400 with a selector
\* whose entry has an empty transcript; none of them makes a downstream call.
C6_CloneSelectorChecked ==
  /\ \A r \in TtsRequests :
       (~Blank(r.text) /\ r.provider = "mlx-voice-clone") =>
         LET out == DispatchNow(r).out IN
         /\ SelectorOf(r) \in {None, ""} =>
              /\ out.kind = "raise"
              /\ out.status = 400
              /\ out.detail = <<"Voice ID required for voice cloning">>
         /\ (SelectorOf(r) \notin {None, ""}
               /\ SelectorOf(r) \notin DOMAIN meta) =>
              /\ out.kind = "raise"
              /\ out.status = 404
              /\ out.detail = <<"Voice not found">>
         /\ (SelectorOf(r) \in DOMAIN meta
               /\ meta[SelectorOf(r)].transcript = <<>>) =>
              /\ out.kind = "raise"
              /\ out.status = 400
              /\ out.detail = <<"Voice transcript is required for cloning">>
  /\ \A task \in synth :
       task.provider = "mlx-voice-clone" => task.sent.ref_text # <<>>
  /\ (last.op = "tts" /\ last.detail \in
        {<<"Voice ID required for voice cloning">>, <<"Voice not found">>,
         <<"Voice transcript is required for cloning">>}) =>
       /\ last.trace.calls = 0
       /\ last.status = IF last.detail = <<"Voice not found">> THEN 404 ELSE 400

\* C6 amended: a cloning request with a non-blank text is answered 400
\* without a selector, 404 with a selector that is not registered, 404 with
\* a selector whose entry has lost its audio file (whatever its transcript),
\* and 400 with a selector whose entry has its file and an empty transcript;
\* none of them makes a downstream call.
C6_CloneChecksInOrder ==
  /\ \A r \in TtsRequests :
       (~Blank(r.text) /\ r.provider = "mlx-voice-clone") =>
         LET out == DispatchNow(r).out IN
         /\ SelectorOf(r) \in {None, ""} =>
              /\ out.kind = "raise"
              /\ out.status = 400
              /\ out.detail = <<"Voice ID required for voice cloning">>
         /\ (SelectorOf(r) \notin {None, ""}
               /\ SelectorOf(r) \notin DOMAIN meta) =>
              /\ out.kind = "raise"
              /\ out.status = 404
              /\ out.detail = <<"Voice not found">>
         /\ (SelectorOf(r) \in DOMAIN meta
               /\ meta[SelectorOf(r)].filename \notin files) =>
              /\ out.kind = "raise"
              /\ out.status = 404
              /\ out.detail = <<"Voice audio file not found">>
         /\ (SelectorOf(r) \in DOMAIN meta
               /\ meta[SelectorOf(r)].filename \in files
               /\ meta[SelectorOf(r)].transcript = <<>>) =>
              /\ out.kind = "raise"
              /\ out.status = 400
              /\ out.detail = <<"Voice transcript is required for cloning">>
  /\ \A task \in synth :
       task.provider = "mlx-voice-clone" =>
         task.sent.ref_text # <<>> /\ task.sent.ref_audio # <<>>
  /\ (last.op = "tts" /\ last.detail \in
        {<<"Voice ID required for voice cloning">>, <<"Voice not found">>,
         <<"Voice audio file not found">>,
         <<"Voice transcript is required for cloning">>}) =>
       /\ last.trace.calls = 0
       /\ last.status = IF last.detail[1] \in {"Voice not found",
                                               "Voice audio file not found"}
                        THEN 404 ELSE 400

\* C6 witness: a cloning request naming a registered voice whose transcript
\* is empty was just rejected
C6_Witness ==
  /\ last.op = "tts"
  /\ last.status = 400
  /\ last.detail = <<"Voice transcript is required for cloning">>
  /\ \E v \in DOMAIN meta : meta[v].transcript = <<>>

\* a content type that starts with "audio/"
DeclaresAudio(content_type) ==
  Len(content_type) >= 2 /\ SubSeq(content_type, 1, 2) = <<"audio", "/">>

\* C7: an upload whose content type is absent or does not start with "audio/"
\* is answered 400 and never gets to read its payload; a payload of more than
\* 25 MiB is answered 400 and stores nothing; a payload of exactly 25 MiB is
\* not answered "File too large".
C7_UploadValidated ==
  /\ (last.op = "upload" /\ ~DeclaresAudio(last.req.file.content_type)) =>
       last.status = 400 /\ last.detail = <<"File must be an audio file">>
  /\ \A req \in uploads : DeclaresAudio(req.file.content_type)
  /\ \A req \in uploads, voice_id \in Uuid4(issued), heard \in WhisperTexts :
       /\ LET eff == StoreEffect(req, 25 * 1024 * 1024 + 1, voice_id, heard,
                                 HAS_WHISPER, meta, files) IN
          /\ eff.resp.status = 400
          /\ eff.resp.detail = <<"File too large (max 25 MB)">>
          /\ eff.meta = meta /\ eff.files = files
       /\ LET eff == StoreEffect(req, 25 * 1024 * 1024, voice_id, heard,
                                 HAS_WHISPER, meta, files) IN
          eff.resp.detail # <<"File too large (max 25 MB)">>
  /\ (last.op = "upload"
        /\ last.detail = <<"File too large (max 25 MB)">>) =>
       last.status = 400

\* C7 witness: an audio upload was just rejected for its size
C7_Witness ==
  /\ last.op = "upload"
  /\ last.status = 400
  /\ last.detail = <<"File too large (max 25 MB)">>
  /\ DeclaresAudio(last.req.file.content_type)

\* C8: an upload of acceptable type and size with a blank transcript is
\* answered 400 "Transcript required ..." when mlx_whisper is missing; when
\* it is installed the upload succeeds and the transcript returned and the
\* one stored are what transcribe_audio returned.
C8_BlankTranscriptTranscribed ==
  /\ \A req \in uploads, voice_id \in Uuid4(issued), heard \in WhisperTexts,
        size \in Sizes :
       (Blank(req.transcript) /\ size <= 25 * 1024 * 1024) =>
         LET eff == StoreEffect(req, size, voice_id, heard, HAS_WHISPER,
                                meta, files) IN
         IF ~HAS_WHISPER
         THEN /\ eff.resp.status = 400
              /\ eff.resp.detail[1] = "Transcript required. Install mlx-whisper for auto-transcription: uv pip install mlx-whisper"
              /\ eff.meta = meta
         ELSE /\ eff.resp.status = 200
              /\ eff.resp.body.transcript = transcribe_audio(TRUE, heard).text
              /\ eff.meta[voice_id].transcript =
                   transcribe_audio(TRUE, heard).text
  /\ (last.op = "upload" /\ last.status = 200
        /\ Blank(last.req.transcript)) =>
       /\ HAS_WHISPER
       /\ \E heard \in WhisperTexts :
            last.body.transcript = transcribe_audio(TRUE, heard).text
       /\ meta[last.body.voice_id].transcript = last.body.transcript

\* C8 witness: an upload with a whitespace-only transcript just succeeded
\* with the text mlx_whisper heard
C8_Witness ==
  /\ last.op = "upload"
  /\ last.status = 200
  /\ last.req.transcript = <<SP>>
  /\ last.body.transcript = <<"a">>
  /\ meta[last.body.voice_id].transcript = <<"a">>

\* C9 as stated: whenever no upload is suspended the audio files in uploads/
\* are exactly the files the metadata entries name.
C9_FilesMatchEntries ==
  uploads = {} => files = {meta[v].filename : v \in DOMAIN meta}

\* C10: a 200 answer of /api/tts carries exactly the bytes the downstream
\* service returned, the media type of its provider (audio/wav for openai,
\* audio/mpeg for the other three) and a filename extension that agrees
\* (wav, mp3); it is only given for a downstream 200.
C10_AudioPassedThrough ==
  /\ \A task \in synth, o \in DownstreamOutcomes :
       LET resp == Complete(task, o) IN
       resp.status = 200 =>
         /\ o.kind = "response" /\ o.status = 200
         /\ resp.body.content = o.content
         /\ resp.body.media_type =
              IF task.provider = "openai" THEN "audio/wav" ELSE "audio/mpeg"
         /\ resp.body.disposition[Len(resp.body.disposition)] =
              IF resp.body.media_type = "audio/wav" THEN "wav" ELSE "mp3"
  /\ \A r \in TtsRequests :
       DispatchNow(r).out.kind = "raise" => DispatchNow(r).out.status # 200
  /\ (last.op = "tts" /\ last.status = 200) =>
       /\ last.body.content \in AudioBytes
       /\ last.trace.calls = 1
       /\ last.body.media_type =
            IF last.trace.branch = "openai" THEN "audio/wav" ELSE "audio/mpeg"
       /\ last.body.disposition[Len(last.body.disposition)] =
            IF last.body.media_type = "audio/wav" THEN "wav" ELSE "mp3"

\* C10 witness: openai audio was just returned as audio/wav
C10_Witness ==
  /\ last.op = "tts"
  /\ last.status = 200
  /\ last.trace.branch = "openai"
  /\ last.body.media_type = "audio/wav"
  /\ last.body.content = "audio2"

\* C11 as stated: a downstream answer with a non-success status S makes the
\* request fail with status S and a detail that ends with the downstream body
\* text; audio is returned only for a downstream success status; every
\* failure answer of /api/tts has a 4xx or 5xx status.
C11_DownstreamStatusMapped ==
  /\ \A task \in synth, o \in DownstreamOutcomes :
       o.kind = "response" =>
         LET resp == Complete(task, o) IN
         /\ o.status \notin 200..299 =>
              /\ resp.status = o.status
              /\ resp.detail = <<task.prefix, o.content>>
         /\ resp.status = 200 => o.status \in 200..299
  /\ (last.op = "tts" /\ last.status \notin {0, 200}) =>
       last.status \in 400..599

\* C12: whatever the provider, a downstream call that cannot connect is
\* answered 503 and one that times out 504; an HTTP error raised by a
\* generate_* function (a check before the call, a downstream status other
\* than 200) keeps its own status, so 500 is answered only for a downstream
\* 500 or an exception that is none of these.
C12_NetworkFailureMapped ==
  /\ \A task \in synth, o \in DownstreamOutcomes :
       LET resp == Complete(task, o) IN
       /\ o.kind = "ConnectError" => resp.status = 503
       /\ o.kind = "TimeoutException" => resp.status = 504
       /\ (o.kind = "response" /\ o.status # 200) => resp.status = o.status
       /\ resp.status = 500 =>
            o.kind = "Exception" \/ (o.kind = "response" /\ o.status = 500)
  /\ \A r \in TtsRequests :
       DispatchNow(r).out.kind = "raise" =>
         DispatchNow(r).out.status \in {400, 404}
  /\ (last.op = "tts" /\ last.status # 0 /\ last.trace.calls = 0) =>
       last.status \in {400, 404}
  /\ (last.op = "tts" /\ last.status \in {503, 504}) =>
       /\ last.trace.calls = 1
       /\ last.detail[1] =
            IF last.status = 503 THEN "Cannot connect to "
            ELSE "TTS generation timed out"

\* C12 witness: a cloning request whose downstream call timed out was just
\* answered 504
C12_Witness ==
  /\ last.op = "tts"
  /\ last.status = 504
  /\ last.trace.branch = "mlx-voice-clone"
  /\ last.trace.calls = 1

\* C13: the voices map GET /api/providers returns for mlx-voice-clone has
\* exactly the voice ids of the metadata store as keys and the entries' names
\* as values; an id whose delete was acknowledged is not in it and an id whose
\* upload was acknowledged and that was not deleted is.
C13_ProvidersFresh ==
  /\ DOMAIN CloneVoices = DOMAIN meta
  /\ \A vid \in DOMAIN meta : CloneVoices[vid] = meta[vid].name
  /\ last.op = "providers" =>
       LET voices == last.body["mlx-voice-clone"].voices IN
       /\ DOMAIN voices = DOMAIN meta
       /\ \A vid \in DOMAIN voices : voices[vid] = meta[vid].name
       /\ \A vid \in deleted : vid \notin DOMAIN voices
       /\ \A vid \in acked \ deleted : vid \in DOMAIN voices

\* C13 witness: a listing made after two uploads and the delete of one of
\* them shows the other voice only
C13_Witness ==
  /\ last.op = "providers"
  /\ deleted # {}
  /\ DOMAIN last.body["mlx-voice-clone"].voices = acked \ deleted
  /\ acked \ deleted # {}

\* C14: no step changes the entry of a voice id that stays in the store; an
\* entry disappears only in the step that answers 200 to the delete of its
\* id; an entry appears only in the step that answers 200 to an upload, and
\* that step adds exactly one key, which was not in the store before.
C14_VoiceIdImmutable ==
  [][/\ \A k \in DOMAIN meta : k \in DOMAIN meta' => meta'[k] = meta[k]
     /\ \A k \in DOMAIN meta \ DOMAIN meta' :
          last'.op = "delete" /\ last'.status = 200 /\ last'.req = k
     /\ DOMAIN meta' \ DOMAIN meta # {} =>
          last'.op = "upload" /\ last'.status = 200
     /\ (uploads' # uploads /\ last'.op = "upload" /\ last'.status = 200) =>
          /\ last'.body.voice_id \notin DOMAIN meta
          /\ DOMAIN meta' = DOMAIN meta \cup {last'.body.voice_id}
          /\ Cardinality(DOMAIN meta') = Cardinality(DOMAIN meta) + 1
          /\ meta'[last'.body.voice_id].filename[1] = last'.body.voice_id
    ]_vars

\* C14 witness: a second upload has just been stored beside the first
C14_Witness ==
  /\ last.op = "upload"
  /\ last.status = 200
  /\ Cardinality(DOMAIN meta) = 2
  /\ last.body.voice_id \in DOMAIN meta

\* the store misses a voice whose upload was acknowledged and that nobody
\* deleted, or still has a voice whose delete was acknowledged
LostUpdate ==
  \/ \E vid \in acked \ deleted : vid \notin DOMAIN meta
  \/ \E vid \in deleted : vid \in DOMAIN meta

C16_TranscriptNonEmpty ==
  /\ \A vid \in DOMAIN meta : meta[vid].transcript # <<>>
  /\ (last.op = "upload" /\ last.status = 200) =>
       last.body.transcript # <<>>
  /\ \A r \in TtsRequests :
       (~Blank(r.text) /\ r.provider = "mlx-voice-clone"
          /\ SelectorOf(r) \in DOMAIN meta) =>
         (DispatchNow(r).out.kind = "raise" =>
            DispatchNow(r).out.detail #
              <<"Voice transcript is required for cloning">>)

\* the details of the checks that come after the catalog test
BranchErrors ==
  {<<"ElevenLabs API key required">>, <<"OpenAI API key required">>,
   <<"Voice ID required for voice cloning">>, <<"Voice not found">>,
   <<"Voice audio file not found">>,
   <<"Voice transcript is required for cloning">>}

\* C17: /api/tts tests the text, then the provider id, then what the provider
\* needs: a blank text is answered "Text cannot be empty" whatever else is
\* wrong with the request, an unknown provider with a non-blank text is
\* answered "Unknown provider", and a missing key or a voice error is only
\* answered to a request with a non-blank text and a provider of the catalog.
C17_ValidationOrder ==
  /\ \A r \in TtsRequests :
       LET out == DispatchNow(r).out IN
       /\ Blank(r.text) =>
            out.kind = "raise" /\ out.detail = <<"Text cannot be empty">>
       /\ (~Blank(r.text) /\ r.provider \notin DOMAIN PROVIDERS) =>
            /\ out.kind = "raise"
            /\ out.detail = <<"Unknown provider: ", r.provider>>
       /\ (out.kind = "raise" /\ out.detail \in BranchErrors) =>
            ~Blank(r.text) /\ r.provider \in DOMAIN PROVIDERS
  /\ (last.op = "tts" /\ last.status # 0
        /\ last.req \notin DOMAIN PROVIDERS) =>
       /\ last.detail \in {<<"Text cannot be empty">>,
                           <<"Unknown provider: ", last.req>>}
       /\ last.trace.branch = "none"
  /\ (last.op = "tts" /\ last.detail \in BranchErrors) =>
       last.req \in DOMAIN PROVIDERS /\ last.trace.branch = last.req

\* C17 witness: a request with a blank text and an unknown provider was just
\* rejected for its text
C17_Witness ==
  /\ last.op = "tts"
  /\ last.req = "bogus"
  /\ last.status = 400
  /\ last.detail = <<"Text cannot be empty">>

\* C18: the delete of an id that is in the metadata store answers 200 and
\* saves the store without that id, also when the entry's audio file is not
\* there, and then leaves the files as they are; after any answer of
\* delete_voice the id is not in the store.
C18_DeleteToleratesMissingFile ==
  /\ \A vid \in DOMAIN meta :
       LET eff == DeleteEffect(meta, files, vid) IN
       /\ eff.resp.status = 200
       /\ eff.resp.body = [status |-> "deleted", voice_id |-> vid]
       /\ eff.meta = [k \in DOMAIN meta \ {vid} |-> meta[k]]
       /\ meta[vid].filename \notin files => eff.files = files
  /\ last.op = "delete" =>
       /\ last.req \notin DOMAIN meta
       /\ last.status \in {200, 404}
       /\ last.status = 200 => last.req \in deleted

\* C18 witness: a delete was just answered 200 for an entry whose audio file
\* was missing
C18_Witness ==
  /\ last.op = "delete"
  /\ last.status = 200
  /\ ~last.trace.unlinked
  /\ last.req \notin DOMAIN meta

\* what GET /api/health is to say of a cloud vendor whose configured key
\* is `key`
VendorStatus(key) == IF key = "" THEN "no_api_key" ELSE "configured"

\* C19: GET /api/health always answers 200 with status "ok"; mlx_audio is
\* "connected" exactly for a probe answered 200, "error" for a probe answered
\* with another status, "disconnected" for a probe that raised; each cloud
\* vendor is "configured" exactly when its configured key is not empty.
C19_HealthNeverFails ==
  /\ \A o \in ProbeOutcomes :
       LET body == HealthBody(o, ELEVENLABS_API_KEY, OPENAI_API_KEY) IN
       /\ body.status = "ok"
       /\ body.providers.mlx_audio = "connected" <=>
            (o.kind = "response" /\ o.status = 200)
       /\ body.providers.mlx_audio = "error" <=>
            (o.kind = "response" /\ o.status # 200)
       /\ body.providers.mlx_audio = "disconnected" <=>
            o.kind \in {"TimeoutException", "ConnectError", "Exception"}
       /\ body.providers.elevenlabs = VendorStatus(ELEVENLABS_API_KEY)
       /\ body.providers.openai = VendorStatus(OPENAI_API_KEY)
  /\ (last.op = "health" /\ last.status # 0) =>
       /\ last.status = 200
       /\ last.detail = <<>>
       /\ last.body.status = "ok"
       /\ last.body.providers.mlx_audio \in
            {"connected", "error", "disconnected"}
       /\ last.body.providers.elevenlabs = VendorStatus(ELEVENLABS_API_KEY)
       /\ last.body.providers.openai = VendorStatus(OPENAI_API_KEY)

\* C19 witness: a health check whose probe raised was just answered, in a
\* deployment with an ElevenLabs key and no OpenAI key
C19_Witness ==
  /\ last.op = "health"
  /\ last.status = 200
  /\ last.body.providers =
       [mlx_audio |-> "disconnected", elevenlabs |-> "configured",
        openai |-> "no_api_key"]

\* C20: for elevenlabs and openai the key sent downstream is the key of the
\* request when it has a non-empty one, and otherwise the key configured for
\* that vendor (no call is made when that is empty too); a suspended call
\* never carries the key configured for the other vendor, and the two local
\* providers send no key.
C20_CredentialResolution ==
  /\ \A r \in TtsRequests :
       (~Blank(r.text) /\ r.provider \in {"elevenlabs", "openai"}) =>
         LET out == DispatchNow(r).out IN
         IF r.api_key \notin {None, ""}
         THEN out.kind = "call" /\ out.sent.key = r.api_key
         ELSE IF ConfiguredKey(r.provider) # ""
         THEN out.kind = "call" /\ out.sent.key = ConfiguredKey(r.provider)
         ELSE out.kind = "raise"
  /\ \A task \in synth :
       /\ task.provider = "elevenlabs" =>
            task.sent.key \in ({"RK", ELEVENLABS_API_KEY} \ {"", "OK"})
       /\ task.provider = "openai" =>
            task.sent.key \in ({"RK", OPENAI_API_KEY} \ {"", "EK"})
       /\ task.provider \in {"mlx-audio", "mlx-voice-clone"} =>
            task.sent.key = None

\* C20 witness: a call to ElevenLabs is in flight with the key of its request
\* although the process has a configured ElevenLabs key
C20_Witness ==
  /\ ELEVENLABS_API_KEY = "EK"
  /\ \E task \in synth :
       task.provider = "elevenlabs" /\ task.sent.key = "RK"

\* C21: in one server process the load, the change and the save of an upload
\* and of a delete happen in one step of the event loop: the store an upload
\* saves is the store of the moment before plus its own entry, the store a
\* delete saves is the store of the moment before minus its id, whatever
\* other handlers are suspended or ran since the request arrived; so at all
\* times the ids in the store are the ids of the acknowledged uploads that no
\* acknowledged delete removed.
C21_LoadSaveAtomic ==
  /\ [](DOMAIN meta = acked \ deleted)
  /\ [][/\ (uploads' # uploads /\ last'.op = "upload"
              /\ last'.status = 200) =>
             /\ DOMAIN meta' = DOMAIN meta \cup {last'.body.voice_id}
             /\ \A k \in DOMAIN meta : meta'[k] = meta[k]
             /\ acked' = acked \cup {last'.body.voice_id}
        /\ (last'.op = "delete" /\ last'.status = 200) =>
             /\ DOMAIN meta' = DOMAIN meta \ {last'.req}
             /\ \A k \in DOMAIN meta' : meta'[k] = meta[k]
             /\ deleted' = deleted \cup {last'.req}
       ]_vars

\* C21 witness: a delete was just acknowledged while an upload that arrived
\* before it is still suspended, and the store has lost that id only
C21_Witness ==
  /\ last.op = "delete"
  /\ last.status = 200
  /\ uploads # {}
  /\ last.req \in acked
  /\ last.req \notin DOMAIN meta
  /\ DOMAIN meta = acked \ deleted

\* C22 as stated: as long as a cloning request is suspended at its downstream
\* call, the registry still has the entry it resolved and uploads/ still has
\* the audio file whose path it sent, whatever deletes are handled meanwhile.
C22_CloneReferenceKept ==
  \A task \in synth :
    task.provider = "mlx-voice-clone" =>
      /\ task.sent.ref_audio \in files
      /\ task.sent.ref_audio[1] \in DOMAIN meta
      /\ meta[task.sent.ref_audio[1]].filename = task.sent.ref_audio

\* C23: the process-wide provider table always has the value the module gave
\* it, whatever uploads, deletes and listings were handled; in particular
\* its voices map for mlx-voice-clone stays empty; and in every answer of
\* GET /api/providers the three other providers are as in the static table.
C23_ProvidersStatic ==
  /\ PROVIDERS = ProviderTable
  /\ PROVIDERS["mlx-voice-clone"].voices = <<>>
  /\ last.op = "providers" =>
       /\ DOMAIN last.body = DOMAIN ProviderTable
       /\ \A p \in DOMAIN ProviderTable \ {"mlx-voice-clone"} :
            /\ last.body[p].voices = ProviderTable[p].voices
            /\ last.body[p] = ProviderTable[p]

\* C23 witness: after two uploads and a delete a listing has just shown the
\* remaining voice for mlx-voice-clone, and the table still has none
C23_Witness ==
  /\ last.op = "providers"
  /\ Cardinality(DOMAIN last.body["mlx-voice-clone"].voices) = 1
  /\ deleted # {}
  /\ PROVIDERS["mlx-voice-clone"].voices = <<>>
  /\ last.body["mlx-voice-clone"].voices # PROVIDERS["mlx-voice-clone"].voices

\* the step that has just been taken was a read-only request (voice list,
\* provider list, health check, any step of a synthesis request), a delete
\* answered 404, or an upload rejected for its content type or its size
ReadOnlyOrRejected(resp) ==
  \/ resp.op \in {"list", "providers", "health", "tts"}
  \/ resp.op = "delete" /\ resp.status = 404
  \/ /\ resp.op = "upload"
     /\ resp.detail \in {<<"File must be an audio file">>,
                         <<"File too large (max 25 MB)">>}

\* C24: a step of a read-only request, of a delete answered NotFound or of
\* an upload rejected for its content type or its size leaves the metadata
\* store and the set of audio files in uploads/ exactly as they were.
C24_RegistryUntouched ==
  [][ReadOnlyOrRejected(last') => (meta' = meta /\ files' = files)]_vars

\* C24 witness: an upload has just been rejected for its size while a voice
\* is registered, and the store and the files are those of that voice
C24_Witness ==
  /\ last.op = "upload"
  /\ last.detail = <<"File too large (max 25 MB)">>
  /\ Cardinality(DOMAIN meta) = 1
  /\ files = {meta[v].filename : v \in DOMAIN meta}
  /\ issued = DOMAIN meta

====
